---- MODULE Spec2Model ----
(***************************************************************************)
(* Model of the OpenDataMCP provider modules (src/odmcp/providers):        *)
(*   ch_evcharge, ch_public_transit, ch_sbb, glob_emissions,               *)
(*   glob_personal_data.                                                   *)
(* Each module registers tools at load; a handler validates its arguments  *)
(* with a pydantic model, calls a fetch function that talks to an upstream *)
(* HTTP API, and renders the parsed response as one text content item.     *)
(*                                                                         *)
(* Python values are tagged records.  A Python string is a sequence of     *)
(* chunks (TLA+ strings); characters that matter to URL syntax ("&", "=",  *)
(* " ", "?") are always chunks of their own.                               *)
(***************************************************************************)
EXTENDS Integers, Sequences, FiniteSets, TLC

(***************************************************************************)
(* Bounds of the model.                                                    *)
(***************************************************************************)
\* HTTP calls and accumulated pages recorded per invocation.  The paging
\* loop itself is not limited by it: an invocation that makes more calls
\* keeps looping, and the model marks it truncated and forgets what it had
\* recorded and accumulated.
MaxCalls == 3

(***************************************************************************)
(* Python values.                                                          *)
(***************************************************************************)
PyNone == [t |-> "None"]
PyInt(n) == [t |-> "int", v |-> n]
PyStr(s) == [t |-> "str", v |-> s]
PyBool(b) == [t |-> "bool", v |-> b]
\* a float is kept as its decimal digits: <<"4", "7", ".", "5">>
PyFloat(s) == [t |-> "float", v |-> s]
\* a datetime is kept as the ISO text it was parsed from
PyDateTime(s) == [t |-> "datetime", v |-> s]
PyList(s) == [t |-> "list", v |-> s]
PyTuple(s) == [t |-> "tuple", v |-> s]
PyDict(m) == [t |-> "dict", v |-> m]
\* an instance of a pydantic model: class name and the fields in
\* declaration order, each a pair <<name, value>>
PyModel(cls, fields) == [t |-> "model", cls |-> cls, v |-> fields]

EmptyMap == << >>

\* Python truthiness, as used by `arguments or {}`, `if params.start_year`
\* and `while endpoint`
Truthy(x) ==
    CASE x.t = "None" -> FALSE
      [] x.t = "int" -> x.v # 0
      [] x.t = "bool" -> x.v
      [] x.t = "str" -> x.v # << >>
      [] x.t = "list" -> x.v # << >>
      [] x.t = "tuple" -> x.v # << >>
      [] x.t = "dict" -> DOMAIN x.v # {}
      [] OTHER -> TRUE

Digits == {"0", "1", "2", "3", "4", "5", "6", "7", "8", "9"}

DigitVal(c) ==
    CASE c = "0" -> 0 [] c = "1" -> 1 [] c = "2" -> 2 [] c = "3" -> 3
      [] c = "4" -> 4 [] c = "5" -> 5 [] c = "6" -> 6 [] c = "7" -> 7
      [] c = "8" -> 8 [] c = "9" -> 9

\* the string is a non-empty run of decimal digits
IsIntStr(s) == s # << >> /\ \A i \in 1..Len(s) : s[i] \in Digits

RECURSIVE IntOfStr(_)
IntOfStr(s) ==
    IF s = << >> THEN 0
    ELSE 10 * IntOfStr(SubSeq(s, 1, Len(s) - 1)) + DigitVal(s[Len(s)])

RECURSIVE DigitsOf(_)
DigitsOf(n) ==
    IF n < 10 THEN <<ToString(n)>>
    ELSE DigitsOf(n \div 10) \o <<ToString(n % 10)>>

\* str(n) of a Python int
IntStr(n) == IF n < 0 THEN <<"-">> \o DigitsOf(0 - n) ELSE DigitsOf(n)

(***************************************************************************)
(* Input schemas: the pydantic models the handlers construct from the      *)
(* tool-call arguments.  A field has a kind, a nullable flag (Optional),   *)
(* a required flag (default `...`), a default and optional ge/le bounds.   *)
(***************************************************************************)
NoBound == PyNone

Fld(name, kind, nullable, required, default, ge, le) ==
    [name |-> name, kind |-> kind, nullable |-> nullable,
     required |-> required, default |-> default, ge |-> ge, le |-> le]

OptStr(name) == Fld(name, "str", TRUE, FALSE, PyNone, NoBound, NoBound)
OptListStr(name) == Fld(name, "liststr", TRUE, FALSE, PyNone, NoBound, NoBound)

\* ch_evcharge.ChargingStationParams
ChargingStationParams ==
    << Fld("limit", "int", FALSE, FALSE, PyInt(3), NoBound, NoBound),
       Fld("test", "str", FALSE, FALSE,
           PyStr(<<"&", "cql_filter", "=", "RenewableEnergy", "=", "true">>),
           NoBound, NoBound) >>

\* ch_public_transit.Public_TransitParams
Public_TransitParams ==
    << Fld("origin", "str", FALSE, TRUE, PyNone, NoBound, NoBound),
       Fld("to", "str", FALSE, FALSE, PyNone, NoBound, NoBound) >>

\* ch_sbb.TrafficInfoParams
TrafficInfoParams ==
    << OptStr("select"), OptStr("where"), OptStr("group_by"),
       OptStr("order_by"),
       Fld("limit", "int", FALSE, FALSE, PyInt(10), PyInt(1), PyInt(100)),
       Fld("offset", "int", FALSE, FALSE, PyInt(0), PyInt(0), NoBound),
       OptStr("refine"), OptStr("exclude"), OptStr("lang"),
       Fld("timezone", "str", FALSE, FALSE, PyStr(<<"UTC">>), NoBound, NoBound),
       Fld("include_links", "bool", FALSE, FALSE, PyBool(FALSE), NoBound, NoBound),
       Fld("include_app_metas", "bool", FALSE, FALSE, PyBool(FALSE), NoBound, NoBound) >>

\* ch_sbb.RailwayLineParams
RailwayLineParams ==
    << OptStr("select"), OptStr("where"), OptStr("group_by"),
       OptStr("order_by"),
       Fld("limit", "int", FALSE, FALSE, PyInt(10), PyInt(1), PyInt(100)),
       Fld("offset", "int", FALSE, FALSE, PyInt(0), PyInt(0), NoBound) >>

\* glob_emissions.EndpointParams
EmissionsEndpointParams == << OptStr("start_year"), OptStr("end_year") >>

\* glob_personal_data.EndpointParams
PersonalEndpointParams ==
    << OptListStr("person_titles"), OptListStr("person_locations"),
       OptListStr("person_seniorities"), OptListStr("organization_locations"),
       OptListStr("q_organization_domains"), OptListStr("contact_email_status"),
       OptListStr("organization_ids"),
       OptListStr("organization_num_employees_ranges"),
       OptStr("q_keywords"),
       Fld("page", "int", TRUE, FALSE, PyInt(1), NoBound, NoBound),
       Fld("per_page", "int", TRUE, FALSE, PyNone, NoBound, NoBound) >>

(***************************************************************************)
(* pydantic validation of one value against a field (default, lax mode).   *)
(***************************************************************************)
Bad == [ok |-> FALSE, v |-> PyNone]
Good(v) == [ok |-> TRUE, v |-> v]

BoolTrueStrs == {"1", "on", "t", "true", "y", "yes"}
BoolFalseStrs == {"0", "off", "f", "false", "n", "no"}

\* a float is written as digits, ".", digits; it is integral when the
\* fraction is the single digit 0
FloatIsIntegral(s) ==
    /\ Len(s) >= 3
    /\ s[Len(s)] = "0"
    /\ s[Len(s) - 1] = "."
    /\ IsIntStr(SubSeq(s, 1, Len(s) - 2))

\* int: an int, a bool (as 0/1), a float without a fraction or a string of
\* digits with optional sign
CoerceInt(v) ==
    CASE v.t = "int" -> Good(v)
      [] v.t = "bool" -> Good(PyInt(IF v.v THEN 1 ELSE 0))
      [] v.t = "float" ->
            IF FloatIsIntegral(v.v)
            THEN Good(PyInt(IntOfStr(SubSeq(v.v, 1, Len(v.v) - 2))))
            ELSE Bad
      [] v.t = "str" ->
            IF IsIntStr(v.v) THEN Good(PyInt(IntOfStr(v.v)))
            ELSE IF Len(v.v) > 1 /\ v.v[1] = "-" /\ IsIntStr(Tail(v.v))
                 THEN Good(PyInt(0 - IntOfStr(Tail(v.v))))
                 ELSE Bad
      [] OTHER -> Bad

\* str: only a str
CoerceStr(v) == IF v.t = "str" THEN Good(v) ELSE Bad

\* bool: a bool, the ints 0 and 1, or one of the accepted words
CoerceBool(v) ==
    CASE v.t = "bool" -> Good(v)
      [] v.t = "int" -> IF v.v \in {0, 1} THEN Good(PyBool(v.v = 1)) ELSE Bad
      [] v.t = "str" ->
            IF Len(v.v) = 1 /\ v.v[1] \in BoolTrueStrs THEN Good(PyBool(TRUE))
            ELSE IF Len(v.v) = 1 /\ v.v[1] \in BoolFalseStrs
                 THEN Good(PyBool(FALSE))
                 ELSE Bad
      [] OTHER -> Bad

\* List[str]: a list or tuple whose items are all str
CoerceListStr(v) ==
    IF v.t \in {"list", "tuple"} /\ \A i \in 1..Len(v.v) : v.v[i].t = "str"
    THEN Good(PyList(v.v))
    ELSE Bad

\* a range check that forgets the upper bound
InRange_NoUpperBound(f, n) == f.ge # NoBound => n >= f.ge.v

\* the ge / le constraints of an int field
InRange(f, n) ==
    /\ (f.ge # NoBound => n >= f.ge.v)
    /\ (f.le # NoBound => n <= f.le.v)

CoerceField(f, v) ==
    IF v.t = "None" THEN (IF f.nullable THEN Good(PyNone) ELSE Bad)
    ELSE CASE f.kind = "int" ->
                 LET r == CoerceInt(v)
                 IN  IF r.ok /\ InRange(f, r.v.v) THEN r ELSE Bad
           [] f.kind = "str" -> CoerceStr(v)
           [] f.kind = "bool" -> CoerceBool(v)
           [] f.kind = "liststr" -> CoerceListStr(v)

\* a validation that leaves an omitted field None instead of giving it the
\* declared default
ValidateField_OmittedIsNone(f, kw) ==
    IF f.name \in DOMAIN kw THEN CoerceField(f, kw[f.name])
    ELSE IF f.required THEN Bad ELSE Good(PyNone)

\* a field of a model built from keyword arguments kw: a supplied value is
\* validated, an omitted one takes the default unvalidated, a required one
\* must be supplied
ValidateField(f, kw) ==
    IF f.name \in DOMAIN kw THEN CoerceField(f, kw[f.name])
    ELSE IF f.required THEN Bad ELSE Good(f.default)

\* Model(kw) built from keyword arguments: the instance when every field validates, else the names of
\* the offending fields.  Keys that name no field are ignored.
ValidateModel(cls, schema, kw) ==
    LET res == [i \in 1..Len(schema) |-> ValidateField(schema[i], kw)]
        bad == {schema[i].name : i \in {j \in 1..Len(schema) : ~res[j].ok}}
    IN  IF bad = {}
        THEN [ok |-> TRUE,
              obj |-> PyModel(cls, [i \in 1..Len(schema) |->
                                      <<schema[i].name, res[i].v>>]),
              errors |-> {}]
        ELSE [ok |-> FALSE, obj |-> PyNone, errors |-> bad]

\* attribute access params.name on a model instance
RECURSIVE AttrFrom(_, _, _)
AttrFrom(fields, name, i) ==
    IF fields[i][1] = name THEN fields[i][2] ELSE AttrFrom(fields, name, i + 1)

Attr(obj, name) == AttrFrom(obj.v, name, 1)

(***************************************************************************)
(* Response schemas: the pydantic models the fetch functions build from    *)
(* the JSON body.  A field has the attribute name, the JSON key (its alias *)
(* when one is declared), a type and a required flag; a field that is not  *)
(* required is Optional with default None.                                 *)
(***************************************************************************)
TStr == [k |-> "str"]
TInt == [k |-> "int"]
TFloat == [k |-> "float"]
TBool == [k |-> "bool"]
TDateTime == [k |-> "datetime"]
TDict == [k |-> "dict"]
TList(ty) == [k |-> "list", of |-> ty]
TModel(cls) == [k |-> "model", cls |-> cls]

\* Field(..., description=...) or Field(description=...): required
Req(name, ty) == [name |-> name, key |-> name, ty |-> ty, required |-> TRUE,
                  nullable |-> FALSE]
\* Field(alias=key, description=...): required, read from the alias only
ReqAlias(name, key, ty) == [name |-> name, key |-> key, ty |-> ty,
                            required |-> TRUE, nullable |-> FALSE]
\* Optional[T] = Field(None, ...)
Opt(name, ty) == [name |-> name, key |-> name, ty |-> ty, required |-> FALSE,
                  nullable |-> TRUE]
\* Optional[T] = Field(..., ...): the key is required, null is accepted
ReqNullable(name, ty) == [name |-> name, key |-> name, ty |-> ty,
                          required |-> TRUE, nullable |-> TRUE]

ResponseSchema(cls) ==
    CASE \* ch_evcharge
         cls = "Geodata" ->
            << Req("type", TStr), Req("coordinates", TList(TFloat)) >>
      [] cls = "AdressProperties" ->
            << Req("PostalCode", TStr), Req("City", TStr), Req("Street", TStr),
               Req("Country", TStr) >>
      [] cls = "CharingFacilites" ->
            << Req("Power", TInt), Req("Voltage", TInt), Req("PowerType", TStr) >>
      [] cls = "StationProperties" ->
            << ReqAlias("featureType", "@featureType", TStr),
               ReqAlias("id", "_id", TStr),
               Req("EvseStatus", TStr), Req("Plugs", TStr),
               Req("AuthenticationModes", TList(TStr)),
               Req("AccessibilityLocation", TStr),
               Req("Address", TModel("AdressProperties")),
               Req("PaymentOptions", TList(TStr)),
               Req("RenewableEnergy", TBool),
               Req("ChargingFacilities", TList(TModel("CharingFacilites"))) >>
      [] cls = "CharingStationResult" ->
            << Req("type", TStr), Req("id", TStr),
               Req("geometry", TModel("Geodata")),
               Req("properties", TModel("StationProperties")) >>
      [] cls = "CharingStationResponse" ->
            << Req("type", TStr),
               Req("features", TList(TModel("CharingStationResult"))) >>
         \* ch_public_transit
      [] cls = "Location" -> << Req("id", TStr), Req("name", TStr) >>
      [] cls = "Stop" ->
            << Req("station", TModel("Location")), Opt("arrival", TStr),
               Opt("departure", TStr), Opt("delay", TInt) >>
      [] cls = "Departure" ->
            << Req("station", TModel("Location")), Req("departure", TStr),
               Req("platform", TStr) >>
      [] cls = "Arrival" ->
            << Req("station", TModel("Location")), Req("arrival", TStr),
               Req("platform", TStr) >>
      [] cls = "Route" ->
            << Req("name", TStr), Req("category", TStr), Req("number", TStr),
               Req("operator", TStr), Req("to", TStr),
               Req("passList", TList(TModel("Stop"))) >>
      [] cls = "TransitOption" -> << Req("journey", TModel("Route")) >>
      [] cls = "PublicTransitResult" ->
            << ReqAlias("start", "from", TModel("Departure")),
               ReqAlias("to", "to", TModel("Arrival")),
               Req("duration", TStr), Req("transfers", TInt),
               Req("sections", TList(TModel("TransitOption"))) >>
      [] cls = "Public_TransitResponse" ->
            << Req("connections", TList(TModel("PublicTransitResult"))) >>
         \* ch_sbb
      [] cls = "TrafficInfoResult" ->
            << Req("title", TStr), Req("link", TStr), Req("description", TStr),
               Req("published", TDateTime), Req("author", TStr),
               Req("validitybegin", TDateTime), Req("validityend", TDateTime),
               Req("description_html", TStr) >>
      [] cls = "TrafficInfoResponse" ->
            << Req("total_count", TInt),
               Req("results", TList(TModel("TrafficInfoResult"))) >>
      [] cls = "GeoPoint2D" -> << Req("lon", TFloat), Req("lat", TFloat) >>
      [] cls = "LineGeometry" ->
            << Req("coordinates", TList(TList(TFloat))), Req("type", TStr) >>
      [] cls = "LineFeature" ->
            << Req("type", TStr), Req("geometry", TModel("LineGeometry")),
               Req("properties", TDict) >>
      [] cls = "RailwayLineResult" ->
            << Req("linie", TInt), Req("linienname", TStr),
               Req("bpk_anfang", TStr), Req("bpk_ende", TStr),
               Req("km_anfang", TFloat), Req("km_ende", TFloat),
               Req("stationierung_anfang", TInt),
               Req("stationierung_ende", TInt),
               Req("tst", TModel("LineFeature")),
               Req("geo_point_2d", TModel("GeoPoint2D")) >>
      [] cls = "RailwayLineResponse" ->
            << Req("total_count", TInt),
               Req("results", TList(TModel("RailwayLineResult"))) >>
         \* glob_emissions
      [] cls = "YearlyEmissions" -> << Req("year", TInt), Req("value", TFloat) >>
      [] cls = "EmissionsEndpointResult" ->
            << Req("id", TInt), Req("iso_code3", TStr), Req("country", TStr),
               Req("data_source", TStr), Req("sector", TStr), Req("gas", TStr),
               Req("unit", TStr),
               Req("emissions", TList(TModel("YearlyEmissions"))) >>
      [] cls = "EmissionsEndpointResponse" ->
            << Req("data", TList(TModel("EmissionsEndpointResult"))) >>
         \* glob_personal_data
      [] cls = "OrganizationEntry" ->
            << Opt("created_at", TStr), Opt("current", TBool),
               Opt("degree", TStr), Opt("description", TStr),
               Opt("emails", TStr), Opt("end_date", TStr),
               Opt("grade_level", TStr), Opt("kind", TStr), Opt("major", TStr),
               Opt("organization_name", TStr), Opt("start_date", TStr),
               Opt("title", TStr), Opt("updated_at", TStr) >>
      [] cls = "ContactEmail" ->
            << Opt("email", TStr), Opt("email_status", TStr) >>
      [] cls = "PhoneNumbers" ->
            << Opt("sanitized_number", TStr), Opt("status", TStr) >>
      [] cls = "Contact" ->
            << Opt("name", TStr), Opt("linkedin_url", TStr),
               Opt("organization_name", TStr), Opt("email", TStr),
               Opt("email_true_status", TStr),
               Opt("contact_emails", TList(TModel("ContactEmail"))) >>
      [] cls = "TechnologyItem" ->
            << Opt("uid", TStr), Opt("name", TStr), Opt("category", TStr) >>
      [] cls = "Organization" ->
            << Opt("name", TStr), Opt("website_url", TStr),
               Opt("linkedin_url", TStr), Opt("keywords", TList(TStr)),
               Opt("estimated_num_employees", TInt), Opt("city", TStr),
               Opt("state", TStr), Opt("country", TStr),
               Opt("annual_revenue", TInt),
               Opt("technology_names", TList(TStr)),
               Opt("current_technologies", TList(TModel("TechnologyItem"))) >>
      [] cls = "PersonalEndpointResult" ->
            << Opt("id", TStr), Opt("first_name", TStr), Opt("last_name", TStr),
               Opt("name", TStr), Opt("linkedin_url", TStr), Opt("title", TStr),
               Opt("email_status", TStr),
               Opt("extrapolated_email_confidence", TFloat),
               Opt("headline", TStr), Opt("email", TStr),
               Opt("employment_history", TList(TModel("OrganizationEntry"))),
               Opt("state", TStr), Opt("city", TStr), Opt("country", TStr),
               Opt("contact", TModel("Contact")),
               Opt("organization", TModel("Organization")),
               Opt("seniority", TStr) >>
      [] cls = "PersonalEndpointResponse" ->
            << ReqNullable("people", TList(TModel("PersonalEndpointResult"))) >>

(***************************************************************************)
(* Parsing a JSON body against a response schema: the model built from response.json() *)
(***************************************************************************)
\* the ISO 8601 texts the model's upstream uses for timestamps
DateTimeStrs == {"2024-12-01T08:00:00+00:00", "2024-12-02T08:00:00+00:00"}

\* float: a float, an int, a bool or a numeric string
CoerceFloat(v) ==
    CASE v.t = "float" -> Good(v)
      [] v.t = "int" -> Good(PyFloat(IntStr(v.v) \o <<".", "0">>))
      [] v.t = "bool" -> Good(PyFloat(<<(IF v.v THEN "1" ELSE "0"), ".", "0">>))
      [] v.t = "str" ->
            IF IsIntStr(v.v) THEN Good(PyFloat(v.v \o <<".", "0">>)) ELSE Bad
      [] OTHER -> Bad

\* datetime: an ISO 8601 string, or a number read as a unix timestamp
CoerceDateTime(v) ==
    CASE v.t = "datetime" -> Good(v)
      [] v.t = "str" ->
            IF Len(v.v) = 1 /\ v.v[1] \in DateTimeStrs
            THEN Good(PyDateTime(v.v))
            ELSE Bad
      [] v.t = "int" -> Good(PyDateTime(<<"@">> \o IntStr(v.v)))
      [] OTHER -> Bad

RECURSIVE ParseValue(_, _)
RECURSIVE ParseModel(_, _)

\* a value of the declared type, or a failure
ParseValue(ty, v) ==
    CASE ty.k = "str" -> CoerceStr(v)
      [] ty.k = "int" -> CoerceInt(v)
      [] ty.k = "float" -> CoerceFloat(v)
      [] ty.k = "bool" -> CoerceBool(v)
      [] ty.k = "datetime" -> CoerceDateTime(v)
      [] ty.k = "dict" -> IF v.t = "dict" THEN Good(v) ELSE Bad
      [] ty.k = "list" ->
            IF v.t \in {"list", "tuple"}
            THEN LET items == [i \in 1..Len(v.v) |-> ParseValue(ty.of, v.v[i])]
                 IN  IF \A i \in 1..Len(v.v) : items[i].ok
                     THEN Good(PyList([i \in 1..Len(v.v) |-> items[i].v]))
                     ELSE Bad
            ELSE Bad
      [] ty.k = "model" ->
            IF v.t = "dict" THEN ParseModel(ty.cls, v.v)
            ELSE IF v.t = "model" /\ v.cls = ty.cls THEN Good(v) ELSE Bad

\* one field of a response model read from the keyword arguments kw
ParseField(f, kw) ==
    IF f.key \in DOMAIN kw
    THEN IF kw[f.key].t = "None"
         THEN (IF f.nullable THEN Good(PyNone) ELSE Bad)
         ELSE ParseValue(f.ty, kw[f.key])
    ELSE IF f.required THEN Bad ELSE Good(PyNone)

\* cls built from kw: every required key present and every value of its type, at
\* every depth; keys the schema does not declare are ignored
ParseModel(cls, kw) ==
    LET sch == ResponseSchema(cls)
        res == [i \in 1..Len(sch) |-> ParseField(sch[i], kw)]
    IN  IF \A i \in 1..Len(sch) : res[i].ok
        THEN Good(PyModel(cls, [i \in 1..Len(sch) |-> <<sch[i].name, res[i].v>>]))
        ELSE Bad

(***************************************************************************)
(* String rendering: str(x) and repr(x) of Python values.                  *)
(***************************************************************************)
\* the class name as Python prints it (both glob modules name their classes
\* EndpointResult and EndpointResponse)
ClassName(cls) ==
    CASE cls \in {"EmissionsEndpointResult", "PersonalEndpointResult"} ->
            "EndpointResult"
      [] cls \in {"EmissionsEndpointResponse", "PersonalEndpointResponse"} ->
            "EndpointResponse"
      [] OTHER -> cls

RECURSIVE Repr(_)
RECURSIVE ReprItems(_, _)
RECURSIVE ReprFields(_, _, _)
RECURSIVE ReprEntries(_, _)

\* repr of the items of a list or tuple from index i on, joined by ", "
ReprItems(items, i) ==
    IF i > Len(items) THEN << >>
    ELSE Repr(items[i])
         \o (IF i < Len(items) THEN <<", ">> ELSE << >>)
         \o ReprItems(items, i + 1)

\* name=repr(value) of the fields of a model from index i on, joined by sep
ReprFields(fields, i, sep) ==
    IF i > Len(fields) THEN << >>
    ELSE <<fields[i][1], "=">> \o Repr(fields[i][2])
         \o (IF i < Len(fields) THEN <<sep>> ELSE << >>)
         \o ReprFields(fields, i + 1, sep)

\* 'key': repr(value) of the entries of a dict whose keys are ks, in a fixed
\* order of the keys
ReprEntries(d, ks) ==
    IF ks = {} THEN << >>
    ELSE LET k == CHOOSE x \in ks : TRUE
         IN  <<"'", k, "'", ": ">> \o Repr(d[k])
             \o (IF ks # {k} THEN <<", ">> ELSE << >>)
             \o ReprEntries(d, ks \ {k})

Repr(x) ==
    CASE x.t = "None" -> <<"None">>
      [] x.t = "int" -> IntStr(x.v)
      [] x.t = "float" -> x.v
      [] x.t = "bool" -> IF x.v THEN <<"True">> ELSE <<"False">>
      [] x.t = "str" -> <<"'">> \o x.v \o <<"'">>
      [] x.t = "datetime" -> <<"datetime.datetime(">> \o x.v \o <<")">>
      [] x.t = "list" -> <<"[">> \o ReprItems(x.v, 1) \o <<"]">>
      [] x.t = "tuple" ->
            <<"(">> \o ReprItems(x.v, 1)
            \o (IF Len(x.v) = 1 THEN <<",">> ELSE << >>) \o <<")">>
      [] x.t = "dict" -> <<"{">> \o ReprEntries(x.v, DOMAIN x.v) \o <<"}">>
      [] x.t = "model" ->
            <<ClassName(x.cls), "(">> \o ReprFields(x.v, 1, ", ") \o <<")">>

\* str(x): a str is itself, a pydantic model prints its fields separated by
\* spaces, everything else prints its repr
Str(x) ==
    CASE x.t = "str" -> x.v
      [] x.t = "model" -> ReprFields(x.v, 1, " ")
      [] OTHER -> Repr(x)

(***************************************************************************)
(* Exceptions.                                                             *)
(***************************************************************************)
NoError == [type |-> "none", cls |-> "", fields |-> {}, status |-> 0]

\* pydantic.ValidationError raised by constructing model cls
ValidationError(cls, fields) ==
    [type |-> "ValidationError", cls |-> cls, fields |-> fields, status |-> 0]

\* TypeError of `cls(**x)` when x is not a mapping
TypeError(cls) ==
    [type |-> "TypeError", cls |-> cls, fields |-> {}, status |-> 0]

\* httpx.HTTPStatusError raised by response.raise_for_status()
HTTPStatusError(status) ==
    [type |-> "HTTPStatusError", cls |-> "", fields |-> {}, status |-> status]

\* httpx.ConnectError raised by the HTTP call itself
ConnectError ==
    [type |-> "ConnectError", cls |-> "", fields |-> {}, status |-> 0]

(***************************************************************************)
(* String helpers used by the query construction.                          *)
(***************************************************************************)
\* s.rstrip(c) for a one-character c
RECURSIVE RStrip(_, _)
RStrip(s, c) ==
    IF s # << >> /\ s[Len(s)] = c THEN RStrip(SubSeq(s, 1, Len(s) - 1), c)
    ELSE s

\* s.replace(old, new) for a one-character old
Replace(s, old, new) == [i \in 1..Len(s) |-> IF s[i] = old THEN new ELSE s[i]]

\* params.model_dump(exclude_none=True): the fields that are not None, in
\* declaration order
ModelDumpExcludeNone(obj) == SelectSeq(obj.v, LAMBDA p : p[2].t # "None")

(***************************************************************************)
(* Query construction of the five providers.                               *)
(***************************************************************************)
ch_evcharge_BASE_URL ==
    << "http://ich-tanke-strom.switzerlandnorth.cloudapp.azure.com:8080/geoserver/ich-tanke-strom/ows",
       "?", "service", "=", "WFS", "&", "version", "=", "1.0.0", "&",
       "request", "=", "GetFeature", "&", "typeName", "=", "ich-tanke-strom" >>

ch_public_transit_BASE_URL ==
    << "http://transport.opendata.ch/v1/connections", "?" >>

ch_sbb_BASE_URL == << "https://data.sbb.ch/api/explore/v2.1" >>

glob_emissions_BASE_URL ==
    << "https://www.climatewatchdata.org/api/v1/data/historical_emissions",
       "?", "regions", "=", "EUU", "&" >>

glob_personal_data_BASE_URL ==
    << "https://api.apollo.io/api/v1/mixed_people/search" >>

NoHeaders == << >>

\* a call of the HTTP client: httpx.get / httpx.post with its arguments
Request(method, url, params, hdrs) ==
    [method |-> method, url |-> url, params |-> params, headers |-> hdrs]

\* an endpoint that asks for as many features as `limit` says
ch_evcharge_endpoint_LimitAsMaxFeatures(params) ==
    ch_evcharge_BASE_URL
    \o << "%3A", "evse", "&", "maxFeatures", "=" >>
    \o Str(Attr(params, "limit"))
    \o << "&", "outputFormat", "=", "application%2Fjson" >>
    \o Str(Attr(params, "test"))

\* ch_evcharge.fetch_endpoint_data: the endpoint f-string
ch_evcharge_endpoint(params) ==
    ch_evcharge_BASE_URL
    \o << "%3A", "evse", "&", "maxFeatures", "=", "10", "&", "outputFormat",
          "=", "application%2Fjson" >>
    \o Str(Attr(params, "test"))

\* ch_public_transit.fetch_transit_data: the endpoint f-string
ch_public_transit_endpoint(params) ==
    ch_public_transit_BASE_URL
    \o <<"from", "=">> \o Str(Attr(params, "origin"))
    \o <<"&", "to", "=">> \o Str(Attr(params, "to"))

\* ch_sbb.fetch_rail_traffic_info: the endpoint f-string
ch_sbb_traffic_endpoint ==
    ch_sbb_BASE_URL \o <<"/catalog/datasets/rail-traffic-information/records">>

\* ch_sbb.fetch_railway_lines: the endpoint f-string
ch_sbb_lines_endpoint ==
    ch_sbb_BASE_URL \o <<"/catalog/datasets/linie/records">>

\* glob_emissions.fetch_endpoint_data: the first endpoint
glob_emissions_endpoint(params) ==
    LET e0 == glob_emissions_BASE_URL
        e1 == IF params.t # "None"
              THEN LET a == e0 \o <<"&">>
                       b == IF Truthy(Attr(params, "start_year"))
                            THEN a \o <<"start_year", "=">>
                                   \o Str(Attr(params, "start_year")) \o <<"&">>
                            ELSE a
                       c == IF Truthy(Attr(params, "end_year"))
                            THEN b \o <<"end_year", "=">>
                                   \o Str(Attr(params, "end_year")) \o <<"&">>
                            ELSE b
                   IN  RStrip(c, "&")
              ELSE e0
    IN  e1

\* glob_personal_data.fetch_endpoint_data: the query string of the dumped
\* fields from index i on
\* a list expansion that repeats the bare key, without the "[]" suffix
RECURSIVE ListParams_BareKey(_, _, _)
ListParams_BareKey(key, items, i) ==
    IF i > Len(items) THEN << >>
    ELSE <<key, "=">> \o Replace(items[i].v, " ", "%20") \o <<"&">>
         \o ListParams_BareKey(key, items, i + 1)

RECURSIVE ListParams(_, _, _)
ListParams(key, items, i) ==
    IF i > Len(items) THEN << >>
    ELSE <<key, "[]", "=">> \o Replace(items[i].v, " ", "%20") \o <<"&">>
         \o ListParams(key, items, i + 1)

RECURSIVE QueryString(_, _)
QueryString(params_dict, i) ==
    IF i > Len(params_dict) THEN << >>
    ELSE LET key == params_dict[i][1]
             value == params_dict[i][2]
         IN  (IF value.t = "list"
              THEN ListParams(key, value.v, 1)
              ELSE <<key, "=">> \o Replace(Str(value), " ", "%20") \o <<"&">>)
             \o QueryString(params_dict, i + 1)

\* glob_personal_data.fetch_endpoint_data: the endpoint
glob_personal_data_endpoint(params) ==
    LET query_string == QueryString(ModelDumpExcludeNone(params), 1)
    IN  IF query_string # << >>
        THEN glob_personal_data_BASE_URL \o <<"?">> \o RStrip(query_string, "&")
        ELSE glob_personal_data_BASE_URL

(***************************************************************************)
(* The provider modules, their handlers and what each module registers.    *)
(***************************************************************************)
Modules ==
    {"ch_evcharge", "ch_public_transit", "ch_sbb", "glob_emissions",
     "glob_personal_data"}

Handlers ==
    {"handle_query_charing_station", "handle_transitdata",
     "handle_rail_traffic_info", "handle_railway_lines",
     "glob_emissions.handle_endpoint", "glob_personal_data.handle_endpoint"}

\* TOOLS.append(types.Tool(name=..., description=..., inputSchema=...))
Tool(name, description, inputSchema) ==
    [name |-> name, description |-> description, inputSchema |-> inputSchema]

\* the registrations a module performs when it is loaded, in source order:
\* the descriptor appended to TOOLS and the handler stored under its name
Registrations(m) ==
    CASE m = "ch_evcharge" ->
            << [tool |-> Tool("charging-stations",
                              "Description of what this endpoint does",
                              "ChargingStationParams"),
                key |-> "charging-stations",
                handler |-> "handle_query_charing_station"] >>
      [] m = "ch_public_transit" ->
            << [tool |-> Tool("transit_information",
                              "Description of what this endpoint does",
                              "Public_TransitParams"),
                key |-> "transit_information",
                handler |-> "handle_transitdata"] >>
      [] m = "ch_sbb" ->
            << [tool |-> Tool("rail-traffic-info",
                              "Fetch rail traffic information",
                              "TrafficInfoParams"),
                key |-> "rail-traffic-info",
                handler |-> "handle_rail_traffic_info"],
               [tool |-> Tool("railway-lines",
                              "Fetch railway line information",
                              "RailwayLineParams"),
                key |-> "railway-lines",
                handler |-> "handle_railway_lines"] >>
      [] m = "glob_emissions" ->
            << [tool |-> Tool("endpoint-name",
                              "Description of what this endpoint does",
                              "EmissionsEndpointParams"),
                key |-> "endpoint-name",
                handler |-> "glob_emissions.handle_endpoint"] >>
      [] m = "glob_personal_data" ->
            << [tool |-> Tool("endpoint-name",
                              "Description of what this endpoint does",
                              "PersonalEndpointParams"),
                key |-> "endpoint-name",
                handler |-> "glob_personal_data.handle_endpoint"] >>

HandlerModule(h) ==
    CASE h = "handle_query_charing_station" -> "ch_evcharge"
      [] h = "handle_transitdata" -> "ch_public_transit"
      [] h \in {"handle_rail_traffic_info", "handle_railway_lines"} -> "ch_sbb"
      [] h = "glob_emissions.handle_endpoint" -> "glob_emissions"
      [] h = "glob_personal_data.handle_endpoint" -> "glob_personal_data"

\* the input model a handler constructs
ParamsClass(h) ==
    CASE h = "handle_query_charing_station" -> "ChargingStationParams"
      [] h = "handle_transitdata" -> "Public_TransitParams"
      [] h = "handle_rail_traffic_info" -> "TrafficInfoParams"
      [] h = "handle_railway_lines" -> "RailwayLineParams"
      [] h = "glob_emissions.handle_endpoint" -> "EmissionsEndpointParams"
      [] h = "glob_personal_data.handle_endpoint" -> "PersonalEndpointParams"

InputSchema(cls) ==
    CASE cls = "ChargingStationParams" -> ChargingStationParams
      [] cls = "Public_TransitParams" -> Public_TransitParams
      [] cls = "TrafficInfoParams" -> TrafficInfoParams
      [] cls = "RailwayLineParams" -> RailwayLineParams
      [] cls = "EmissionsEndpointParams" -> EmissionsEndpointParams
      [] cls = "PersonalEndpointParams" -> PersonalEndpointParams

\* the response model the handler's fetch function constructs
ResponseClass(h) ==
    CASE h = "handle_query_charing_station" -> "CharingStationResponse"
      [] h = "handle_transitdata" -> "Public_TransitResponse"
      [] h = "handle_rail_traffic_info" -> "TrafficInfoResponse"
      [] h = "handle_railway_lines" -> "RailwayLineResponse"
      [] h = "glob_emissions.handle_endpoint" -> "EmissionsEndpointResponse"
      [] h = "glob_personal_data.handle_endpoint" -> "PersonalEndpointResponse"

\* httpx.get or httpx.post
Method(h) ==
    IF h = "glob_personal_data.handle_endpoint" THEN "POST" ELSE "GET"

\* the fetch function that loops `while endpoint`
Paged(h) == h = "glob_emissions.handle_endpoint"

\* the URL the fetch function of handler h first requests
Endpoint(h, params) ==
    CASE h = "handle_query_charing_station" -> ch_evcharge_endpoint(params)
      [] h = "handle_transitdata" -> ch_public_transit_endpoint(params)
      [] h = "handle_rail_traffic_info" -> ch_sbb_traffic_endpoint
      [] h = "handle_railway_lines" -> ch_sbb_lines_endpoint
      [] h = "glob_emissions.handle_endpoint" -> glob_emissions_endpoint(params)
      [] h = "glob_personal_data.handle_endpoint" ->
            glob_personal_data_endpoint(params)

\* the params= argument of the HTTP call (the two ch_sbb fetch functions)
QueryParams(h, params) ==
    IF h \in {"handle_rail_traffic_info", "handle_railway_lines"}
    THEN ModelDumpExcludeNone(params)
    ELSE << >>

\* glob_personal_data.headers, built when the module is loaded from the
\* process environment; env_key is os.getenv("personal_api_key")
PersonalHeaders(env_key) ==
    << <<"accept", PyStr(<<"application/json">>)>>,
       <<"Cache-Control", PyStr(<<"no-cache">>)>>,
       <<"Content-Type", PyStr(<<"application/json">>)>>,
       <<"x-api-key", env_key>> >>

(***************************************************************************)
(* The handler adapter.                                                    *)
(***************************************************************************)
\* `arguments or {}`
ArgumentsOrEmpty(arguments) ==
    IF Truthy(arguments) THEN arguments ELSE PyDict(EmptyMap)

\* the mapping a handler unpacks into its input model: the ch_sbb handlers
\* unpack `arguments` itself, the others `arguments or {}`
Kwargs(h, arguments) ==
    IF h \in {"handle_rail_traffic_info", "handle_railway_lines"}
    THEN arguments
    ELSE ArgumentsOrEmpty(arguments)

\* Params(**kw) as evaluated by the handler: unpacking something that is not
\* a mapping is a TypeError, otherwise pydantic validates
ConstructParams(h, kw) ==
    IF kw.t # "dict"
    THEN [ok |-> FALSE, obj |-> PyNone, err |-> TypeError(ParamsClass(h)),
          validated |-> FALSE]
    ELSE LET r == ValidateModel(ParamsClass(h), InputSchema(ParamsClass(h)), kw.v)
         IN  [ok |-> r.ok, obj |-> r.obj,
              err |-> IF r.ok THEN NoError
                      ELSE ValidationError(ParamsClass(h), r.errors),
              validated |-> TRUE]

\* types.TextContent(type="text", text=...)
TextContent(text) == [type |-> "text", text |-> text]

\* a handler that renders the response with repr() instead of str()
HandlerReturn_Repr(response) == << TextContent(Repr(response)) >>

\* return [types.TextContent(type="text", text=str(response))]
HandlerReturn(response) == << TextContent(Str(response)) >>

\* an except clause that raises a new exception in place of the caught one
HandlerExcept_Wrapped(e) == [log |-> << e >>, raise |-> [e EXCEPT !.type = "Exception"]]

\* except Exception as e: log.error(...); raise
HandlerExcept(e) == [log |-> << e >>, raise |-> e]

(***************************************************************************)
(* The upstream: the responses the HTTP client can hand to a fetch         *)
(* function.                                                               *)
(***************************************************************************)
S(x) == PyStr(<<x>>)

Without(f, k) == [x \in DOMAIN f \ {k} |-> f[x]]

\* one well-formed result item per response schema
EvItem ==
    PyDict([type |-> S("Feature"), id |-> S("evse.1"),
            geometry |-> PyDict([type |-> S("Point"),
                                 coordinates |-> PyList(<<PyFloat(<<"8", ".", "5">>),
                                                          PyInt(47)>>)]),
            properties |-> PyDict(
                ("@featureType" :> S("evse")) @@ ("_id" :> S("1")) @@
                [EvseStatus |-> S("Available"), Plugs |-> S("Type2"),
                 AuthenticationModes |-> PyList(<<S("NFC")>>),
                 AccessibilityLocation |-> S("OnStreet"),
                 Address |-> PyDict([PostalCode |-> S("8000"), City |-> S("Zurich"),
                                     Street |-> S("Bahnhofstrasse"),
                                     Country |-> S("CHE")]),
                 PaymentOptions |-> PyList(<<S("Direct")>>),
                 RenewableEnergy |-> PyBool(TRUE),
                 ChargingFacilities |-> PyList(<<PyDict([Power |-> PyInt(22),
                                                         Voltage |-> PyInt(400),
                                                         PowerType |-> S("AC")])>>)])])

Station(id, name) == PyDict([id |-> S(id), name |-> S(name)])

TransitItem ==
    PyDict(("from" :> PyDict([station |-> Station("8503000", "Zurich HB"),
                              departure |-> S("2024-12-01T08:00:00+0100"),
                              platform |-> S("7")])) @@
           [to |-> PyDict([station |-> Station("8500010", "Basel SBB"),
                           arrival |-> S("2024-12-01T08:53:00+0100"),
                           platform |-> S("4")]),
            duration |-> S("00d00:53:00"), transfers |-> PyInt(0),
            sections |-> PyList(<<PyDict([journey |-> PyDict(
                [name |-> S("IC 3"), category |-> S("IC"), number |-> S("3"),
                 operator |-> S("SBB"), to |-> S("Basel SBB"),
                 passList |-> PyList(<<PyDict([station |-> Station("8503000", "Zurich HB"),
                                               departure |-> S("2024-12-01T08:00:00+0100"),
                                               arrival |-> PyNone])>>)])])>>)])

TrafficItem ==
    PyDict([title |-> S("Disruption"), link |-> S("https://sbb.ch/1"),
            description |-> S("Line closed"),
            published |-> S("2024-12-01T08:00:00+00:00"), author |-> S("SBB"),
            validitybegin |-> S("2024-12-01T08:00:00+00:00"),
            validityend |-> S("2024-12-02T08:00:00+00:00"),
            description_html |-> S("<p>Line closed</p>")])

LineItem ==
    PyDict([linie |-> PyInt(100), linienname |-> S("Lausanne - Brig"),
            bpk_anfang |-> S("Lausanne"), bpk_ende |-> S("Brig"),
            km_anfang |-> PyInt(0), km_ende |-> PyFloat(<<"1", "4", "5", ".", "9">>),
            stationierung_anfang |-> PyInt(0), stationierung_ende |-> PyInt(145),
            tst |-> PyDict([type |-> S("Feature"),
                            geometry |-> PyDict(
                                [coordinates |-> PyList(<<PyList(<<PyInt(6), PyInt(46)>>)>>),
                                 type |-> S("LineString")]),
                            properties |-> PyDict(EmptyMap)]),
            geo_point_2d |-> PyDict([lon |-> PyInt(7), lat |-> PyInt(46)])])

EmissionsItem(id) ==
    PyDict([id |-> PyInt(id), iso_code3 |-> S("EUU"),
            country |-> S("European Union (27)"), data_source |-> S("Climate Watch"),
            sector |-> S("Energy"), gas |-> S("CO2"), unit |-> S("MtCO2e"),
            emissions |-> PyList(<<PyDict([year |-> PyInt(2009),
                                           value |-> PyFloat(<<"3", ".", "5">>)])>>)])

PersonItem == PyDict([id |-> S("p1"), name |-> S("Ann Lee"),
                      organization |-> PyDict([name |-> S("Acme")])])

\* the key of the result list in the body and the other required keys
ListKey(h) ==
    CASE h = "handle_query_charing_station" -> "features"
      [] h = "handle_transitdata" -> "connections"
      [] h \in {"handle_rail_traffic_info", "handle_railway_lines"} -> "results"
      [] h = "glob_emissions.handle_endpoint" -> "data"
      [] h = "glob_personal_data.handle_endpoint" -> "people"

OtherKeys(h, n) ==
    CASE h = "handle_query_charing_station" -> [type |-> S("FeatureCollection")]
      [] h \in {"handle_rail_traffic_info", "handle_railway_lines"} ->
            [total_count |-> PyInt(n)]
      [] OTHER -> EmptyMap

Item(h) ==
    CASE h = "handle_query_charing_station" -> EvItem
      [] h = "handle_transitdata" -> TransitItem
      [] h = "handle_rail_traffic_info" -> TrafficItem
      [] h = "handle_railway_lines" -> LineItem
      [] h = "glob_emissions.handle_endpoint" -> EmissionsItem(1)
      [] h = "glob_personal_data.handle_endpoint" -> PersonItem

\* an item the response schema rejects: a required nested field is missing
\* (for the people search, whose fields are all optional, a mistyped one)
BadItem(h) ==
    CASE h = "handle_query_charing_station" ->
            PyDict([EvItem.v EXCEPT !.geometry = PyDict(Without(@.v, "coordinates"))])
      [] h = "handle_transitdata" ->
            PyDict([TransitItem.v EXCEPT !.to = PyDict(Without(@.v, "platform"))])
      [] h = "handle_rail_traffic_info" -> PyDict(Without(TrafficItem.v, "author"))
      [] h = "handle_railway_lines" ->
            PyDict([LineItem.v EXCEPT !.geo_point_2d = PyDict(Without(@.v, "lat"))])
      [] h = "glob_emissions.handle_endpoint" ->
            PyDict([EmissionsItem(1).v EXCEPT !.emissions =
                        PyList(<<PyDict([year |-> PyInt(2009)])>>)])
      [] h = "glob_personal_data.handle_endpoint" ->
            PyDict([id |-> PyInt(5)])

\* a body whose result list holds the given items
Body(h, items) == PyDict(OtherKeys(h, Len(items)) @@ (ListKey(h) :> PyList(items)))

\* a well-formed one-item body in which one required number or flag arrives
\* as text (the people search has no required number: its body is the plain
\* one)
TextForNumberBody(h) ==
    CASE h = "handle_query_charing_station" ->
            Body(h, << PyDict([EvItem.v EXCEPT !.properties =
                          PyDict([@.v EXCEPT !.RenewableEnergy = S("true")])]) >>)
      [] h = "handle_transitdata" ->
            Body(h, << PyDict([TransitItem.v EXCEPT !.transfers = S("0")]) >>)
      [] h \in {"handle_rail_traffic_info", "handle_railway_lines"} ->
            PyDict([Body(h, <<Item(h)>>).v EXCEPT !.total_count = S("1")])
      [] h = "glob_emissions.handle_endpoint" ->
            Body(h, << PyDict([EmissionsItem(1).v EXCEPT !.id = S("1")]) >>)
      [] h = "glob_personal_data.handle_endpoint" -> Body(h, <<Item(h)>>)

\* response.json() fails
InvalidJson == [t |-> "invalid_json"]

\* the bodies of the model's upstream for the fetch function of handler h
NonPagedBodies(h) ==
    { Body(h, << >>),
      Body(h, <<Item(h)>>),
      PyDict(Body(h, <<Item(h)>>).v @@ [meta |-> S("unknown to the schema")]),
      PyDict(Without(Body(h, <<Item(h)>>).v, ListKey(h))),
      Body(h, <<BadItem(h)>>),
      TextForNumberBody(h),
      PyList(<<Item(h)>>),
      InvalidJson }

\* the cursors the emissions upstream hands out in `next`
NextCursors ==
    { PyStr(<<"https://www.climatewatchdata.org/api/v1/data/historical_emissions",
              "?", "page", "=", "2">>),
      PyStr(<<"https://www.climatewatchdata.org/api/v1/data/historical_emissions",
              "?", "page", "=", "3">>) }

\* the result lists of the pages of the emissions upstream
EmissionsData == { <<EmissionsItem(1)>>, <<EmissionsItem(2), EmissionsItem(3)>> }

\* a page with a cursor, a last page (no `next`, or a null one), an empty
\* last page, and pages the fetch function rejects
PagedBodies(h) ==
    { PyDict(Body(h, items).v @@ [next |-> c]) :
             items \in EmissionsData, c \in NextCursors }
    \cup { Body(h, items) : items \in EmissionsData }
    \cup { PyDict(Body(h, << >>).v @@ [next |-> PyNone]),
           PyDict([next |-> CHOOSE c \in NextCursors : TRUE]),
           Body(h, <<BadItem(h)>>), TextForNumberBody(h), InvalidJson }

Bodies(h) == IF Paged(h) THEN PagedBodies(h) ELSE NonPagedBodies(h)

\* what one call of the HTTP client produces: a response with a status and a
\* body, or a transport failure raised by the client
HttpResponse(status, body) == [kind |-> "response", status |-> status, body |-> body]
TransportFailure == [kind |-> "connect_error", status |-> 0, body |-> PyNone]

ErrorStatuses == {302, 404, 500}

Responses(h) ==
    { HttpResponse(200, b) : b \in Bodies(h) }
    \cup { HttpResponse(201, Body(h, <<Item(h)>>)) }
    \cup { HttpResponse(st, Body(h, <<Item(h)>>)) : st \in ErrorStatuses }
    \cup { TransportFailure }

(***************************************************************************)
(* The fetch functions: what they do with the outcome of the HTTP call.    *)
(***************************************************************************)
\* json.JSONDecodeError raised by response.json()
JSONDecodeError ==
    [type |-> "JSONDecodeError", cls |-> "", fields |-> {}, status |-> 0]

\* the HTTP client refuses a header whose value is not a string, before
\* anything is sent
HeadersAccepted(hdrs) == \A i \in 1..Len(hdrs) : hdrs[i][2].t = "str"

\* a status check that lets redirects through
RaiseForStatus_Only4xx5xx(resp) ==
    IF resp.status < 400 THEN NoError ELSE HTTPStatusError(resp.status)

\* response.raise_for_status(): an error for every status outside 2xx
RaiseForStatus(resp) ==
    IF resp.status \div 100 = 2 THEN NoError ELSE HTTPStatusError(resp.status)

\* the constructor of response model cls either gives the model or raises
\* ValidationError
Constructed(cls, r) ==
    IF r.ok THEN [ok |-> TRUE, obj |-> r.v, err |-> NoError]
    ELSE [ok |-> FALSE, obj |-> PyNone, err |-> ValidationError(cls, {})]

\* cls(**response.json())
ConstructResponse(cls, body) ==
    IF body = InvalidJson THEN [ok |-> FALSE, obj |-> PyNone, err |-> JSONDecodeError]
    ELSE IF body.t # "dict" THEN [ok |-> FALSE, obj |-> PyNone, err |-> TypeError(cls)]
    ELSE Constructed(cls, ParseModel(cls, body.v))

\* the statements from the HTTP call to the construction of the response
\* model: the call itself may raise, raise_for_status() may raise, and only
\* then is the body parsed and validated
Receive(cls, hdrs, resp) ==
    IF ~HeadersAccepted(hdrs)
    THEN [ok |-> FALSE, obj |-> PyNone, err |-> TypeError("Headers"), parsed |-> FALSE]
    ELSE IF resp.kind = "connect_error"
    THEN [ok |-> FALSE, obj |-> PyNone, err |-> ConnectError, parsed |-> FALSE]
    ELSE IF RaiseForStatus(resp) # NoError
    THEN [ok |-> FALSE, obj |-> PyNone, err |-> RaiseForStatus(resp), parsed |-> FALSE]
    ELSE [parsed |-> TRUE] @@ ConstructResponse(cls, resp.body)

\* all_data.extend(EndpointResponse(...)): iterating a pydantic model yields
\* one (field name, value) tuple per field
ExtendWithModel(all_data, obj) ==
    all_data \o [i \in 1..Len(obj.v) |-> PyTuple(<<PyStr(<<obj.v[i][1]>>), obj.v[i][2]>>)]

\* data.get("next")
GetNext(body) == IF "next" \in DOMAIN body.v THEN body.v["next"] ELSE PyNone

(***************************************************************************)
(* State.                                                                  *)
(***************************************************************************)
VARIABLES
    loaded,          \* the provider modules that have been imported
    TOOLS,           \* per module: its TOOLS list
    TOOLS_HANDLERS,  \* per module: its TOOLS_HANDLERS dict
    headers,         \* glob_personal_data.headers (empty before the load)
    pc,              \* "idle", "fetching" (inside the HTTP call), "returned", "raised"
    handler,         \* the handler being run
    arguments,       \* its arguments
    params,          \* the validated input model
    endpoint,        \* the URL of the HTTP call being made
    all_data,        \* the accumulator of the paged fetch
    httpLog,         \* the calls of the HTTP client made by this invocation
    pages,           \* the bodies the paged fetch has accepted so far
    truncated,       \* more calls were made than httpLog records
    fetched,         \* the object the fetch function returned
    result,          \* what the handler returned
    thrown,          \* the exception raised inside the try block
    raised,          \* the exception that left the handler
    logged,          \* the log.error records of this invocation
    validateCalls,   \* constructions of the input model in this invocation
    fetchCalls,      \* calls of the fetch function in this invocation
    stdout           \* what the invocation printed

vars ==
    << loaded, TOOLS, TOOLS_HANDLERS, headers, pc, handler, arguments, params,
       endpoint, all_data, httpLog, pages, truncated, fetched,
       result, thrown, raised, logged, validateCalls, fetchCalls, stdout >>

registryVars == << loaded, TOOLS, TOOLS_HANDLERS, headers >>

callVars ==
    << pc, handler, arguments, params, endpoint, all_data, httpLog, pages,
       truncated, fetched, result, thrown, raised, logged,
       validateCalls, fetchCalls, stdout >>

\* the values os.getenv("personal_api_key") can have when the module loads
EnvKeys == {PyNone, PyStr(<< >>), PyStr(<<"secret">>)}

NoInvocation ==
    /\ handler = "none"
    /\ arguments = PyNone
    /\ params = PyNone
    /\ endpoint = PyNone
    /\ all_data = << >>
    /\ httpLog = << >>
    /\ pages = << >>
    /\ truncated = FALSE
    /\ fetched = PyNone
    /\ result = << >>
    /\ thrown = NoError
    /\ raised = NoError
    /\ logged = << >>
    /\ validateCalls = 0
    /\ fetchCalls = 0
    /\ stdout = << >>

Init ==
    /\ loaded = {}
    /\ TOOLS = [m \in Modules |-> << >>]
    /\ TOOLS_HANDLERS = [m \in Modules |-> EmptyMap]
    /\ headers = NoHeaders
    /\ pc = "idle"
    /\ NoInvocation

(***************************************************************************)
(* The tool-call arguments the model's dispatcher passes.                  *)
(***************************************************************************)
SbbArguments ==
    { PyDict([limit |-> PyInt(0)]), PyDict([limit |-> PyInt(1)]),
      PyDict([limit |-> PyInt(100)]), PyDict([limit |-> PyInt(101)]),
      PyDict([limit |-> S("abc")]), PyDict([limit |-> S("5")]),
      PyDict([offset |-> PyInt(0 - 1)]),
      PyDict([limit |-> PyInt(50), offset |-> PyInt(20)]),
      PyDict([where |-> PyStr(<<"linie", " ", "=", " ", "100">>),
              order_by |-> PyStr(<<"linie", " ", "ASC">>)]),
      PyDict([select |-> PyInt(7)]),
      PyDict([unknown |-> PyInt(1)]) }

Arguments(h) ==
    {PyNone, PyDict(EmptyMap)} \cup
    CASE h = "handle_query_charing_station" ->
            { PyDict([limit |-> PyInt(10)]),
              PyDict([select |-> PyStr(<< >>), limit |-> PyInt(10)]),
              PyDict([limit |-> S("abc")]),
              PyDict([test |-> PyStr(<<"&", "cql_filter", "=", "IsOpen24Hours",
                                       "=", "true">>)]),
              PyDict([limit |-> PyInt(5),
                      test |-> PyStr(<<"&", "cql_filter", "=", "IsOpen24Hours",
                                       "=", "true">>)]),
              PyDict([test |-> PyNone]) }
      [] h = "handle_transitdata" ->
            { PyDict([origin |-> S("Zürich"), to |-> S("Basel")]),
              PyDict([origin |-> PyStr(<<"St.", " ", "Gallen">>),
                      to |-> PyStr(<<"a", "&", "b", "=", "c">>)]),
              PyDict([origin |-> S("Zürich")]),
              PyDict([to |-> S("Basel")]),
              PyDict([origin |-> PyInt(5)]) }
      [] h = "handle_rail_traffic_info" ->
            SbbArguments \cup
            { PyDict([lang |-> S("de"), timezone |-> S("Europe/Zurich"),
                      include_links |-> PyBool(TRUE)]),
              PyDict([include_links |-> S("maybe")]) }
      [] h = "handle_railway_lines" -> SbbArguments
      [] h = "glob_emissions.handle_endpoint" ->
            { PyDict([start_year |-> S("2009"), end_year |-> S("2010")]),
              PyDict([end_year |-> S("2010")]),
              PyDict([start_year |-> PyStr(<< >>)]),
              PyDict([start_year |-> PyInt(2009)]) }
      [] h = "glob_personal_data.handle_endpoint" ->
            { PyDict([person_titles |-> PyList(<<PyStr(<<"software", " ", "engineer">>),
                                                 PyStr(<<"marketing", " ", "manager">>)>>),
                      per_page |-> PyInt(1)]),
              PyDict([person_titles |-> PyList(<< >>), page |-> PyNone]),
              PyDict([q_keywords |-> PyStr(<<"a", " ", "b">>)]),
              PyDict([person_titles |-> S("engineer")]) }

(***************************************************************************)
(* One pass of a fetch function over the outcome of its HTTP call.         *)
(***************************************************************************)
FetchRaise(err) ==
    [status |-> "raise", err |-> err, value |-> PyNone, acc |-> << >>,
     next |-> PyNone]
FetchReturn(value, acc) ==
    [status |-> "return", err |-> NoError, value |-> value, acc |-> acc,
     next |-> PyNone]
FetchContinue(acc, next) ==
    [status |-> "continue", err |-> NoError, value |-> PyNone, acc |-> acc,
     next |-> next]

\* In the operators below r is the outcome of the statements of the fetch
\* function from the HTTP call to the construction of the response model
\* (Receive), and body is the JSON body of the response.

\* a fetch function that calls the client again when the transport fails
FetchOnce_RetryOnTransportFailure(url, r) ==
    IF r.ok THEN FetchReturn(r.obj, << >>)
    ELSE IF r.err = ConnectError THEN FetchContinue(<< >>, url)
    ELSE FetchRaise(r.err)

\* the fetch functions that make one call to url: raise, or return the
\* response model
FetchOnce(url, r) ==
    IF r.ok THEN FetchReturn(r.obj, << >>) ELSE FetchRaise(r.err)

\* a paged fetch that hands back what it has accumulated when a later page
\* fails
FetchPage_ReturnsPartial(acc, r, body) ==
    IF ~r.ok
    THEN (IF acc # << >> THEN FetchReturn(PyList(acc), acc)
          ELSE FetchRaise(r.err))
    ELSE LET all == ExtendWithModel(acc, r.obj)
             next == GetNext(body)
         IN  IF Truthy(next) THEN FetchContinue(all, next)
             ELSE FetchReturn(PyList(all), all)

\* glob_emissions.fetch_endpoint_data, one iteration of `while endpoint`:
\* raise, or extend all_data and either go on with the `next` cursor or
\* return all_data
FetchPage(acc, r, body) ==
    IF ~r.ok THEN FetchRaise(r.err)
    ELSE LET all == ExtendWithModel(acc, r.obj)
             next == GetNext(body)
         IN  IF Truthy(next) THEN FetchContinue(all, next)
             ELSE FetchReturn(PyList(all), all)

FetchStep(h, url, acc, r, body) ==
    IF Paged(h) THEN FetchPage(acc, r, body) ELSE FetchOnce(url, r)

\* the record of one call of the HTTP client: the request handed to it,
\* whether it was sent, what came back (nothing when it was not sent),
\* whether the body reached a response model and whether the call produced
\* a response object (sent, answered with 2xx, body matching the schema)
LogEntry(req, resp, parsed, accepted) ==
    [request |-> req,
     sent |-> HeadersAccepted(req.headers),
     kind |-> IF HeadersAccepted(req.headers) THEN resp.kind ELSE "not_sent",
     status |-> IF HeadersAccepted(req.headers) THEN resp.status ELSE 0,
     body |-> IF HeadersAccepted(req.headers) THEN resp.body ELSE PyNone,
     parsed |-> parsed,
     accepted |-> accepted]

\* the headers= argument of the HTTP call
RequestHeaders(h, hdrs) ==
    IF h = "glob_personal_data.handle_endpoint" THEN hdrs ELSE NoHeaders

ArgumentsOf == [h \in Handlers |-> Arguments(h)]

ResponsesOf == [h \in Handlers |-> Responses(h)]

(***************************************************************************)
(* Actions.                                                                *)
(***************************************************************************)
\* import of provider module m: its registration statements run once
RECURSIVE RegisterHandlers(_, _, _)
RegisterHandlers(d, regs, i) ==
    IF i > Len(regs) THEN d
    ELSE RegisterHandlers((regs[i].key :> regs[i].handler) @@ d, regs, i + 1)

\* a load that runs a module's registration statements again
LoadModule_Reimport(m, env_key) ==
    /\ pc = "idle"
    /\ loaded' = loaded \cup {m}
    /\ TOOLS' = [TOOLS EXCEPT ![m] =
                    @ \o [i \in 1..Len(Registrations(m)) |-> Registrations(m)[i].tool]]
    /\ TOOLS_HANDLERS' = [TOOLS_HANDLERS EXCEPT ![m] =
                             RegisterHandlers(@, Registrations(m), 1)]
    /\ headers' = IF m = "glob_personal_data" THEN PersonalHeaders(env_key)
                  ELSE headers
    /\ UNCHANGED callVars

\* Python imports a module once (later imports find it in sys.modules)
LoadModule(m, env_key) ==
    /\ pc = "idle"
    /\ m \notin loaded
    /\ loaded' = loaded \cup {m}
    /\ TOOLS' = [TOOLS EXCEPT ![m] =
                    @ \o [i \in 1..Len(Registrations(m)) |-> Registrations(m)[i].tool]]
    /\ TOOLS_HANDLERS' = [TOOLS_HANDLERS EXCEPT ![m] =
                             RegisterHandlers(@, Registrations(m), 1)]
    /\ headers' = IF m = "glob_personal_data" THEN PersonalHeaders(env_key)
                  ELSE headers
    /\ UNCHANGED callVars

\* once the providers are imported, the dispatcher looks up `name` in the
\* registry of module m and calls the handler: the try block up to the HTTP
\* call of the fetch function
CallTool(m, name, args) ==
    /\ pc = "idle"
    /\ loaded = Modules
    /\ name \in DOMAIN TOOLS_HANDLERS[m]
    /\ LET h == TOOLS_HANDLERS[m][name]
           c == ConstructParams(h, Kwargs(h, args))
           x == HandlerExcept(c.err)
       IN  /\ handler' = h
           /\ arguments' = args
           /\ validateCalls' = IF c.validated THEN 1 ELSE 0
           /\ params' = c.obj
           /\ IF c.ok
              THEN /\ fetchCalls' = 1
                   /\ endpoint' = PyStr(Endpoint(h, c.obj))
                   /\ pc' = "fetching"
                   /\ UNCHANGED <<thrown, raised, logged>>
              ELSE /\ fetchCalls' = 0
                   /\ endpoint' = PyNone
                   /\ thrown' = c.err
                   /\ logged' = logged \o x.log
                   /\ raised' = x.raise
                   /\ pc' = "raised"
    /\ UNCHANGED <<all_data, httpLog, pages, truncated, fetched, result, stdout>>
    /\ UNCHANGED registryVars

\* the HTTP client call of the running fetch function and everything the
\* fetch function and the handler do with its outcome, up to the next HTTP
\* call or the end of the handler
HttpCall(resp) ==
    /\ pc = "fetching"
    /\ \E r \in { Receive(ResponseClass(handler),
                           RequestHeaders(handler, headers), resp) } :
       \E step \in { FetchStep(handler, endpoint, all_data, r, resp.body) } :
          LET req == Request(Method(handler), endpoint,
                             QueryParams(handler, params),
                             RequestHeaders(handler, headers))
              x == HandlerExcept(step.err)
              over == truncated \/ Len(httpLog) >= MaxCalls
          IN  /\ httpLog' = IF over THEN << >>
                            ELSE Append(httpLog,
                                        LogEntry(req, resp, r.parsed, r.ok))
              /\ truncated' = over
              /\ CASE step.status = "raise" ->
                        /\ thrown' = step.err
                        /\ logged' = logged \o x.log
                        /\ raised' = x.raise
                        /\ pc' = "raised"
                        /\ all_data' = IF over THEN << >> ELSE all_data
                        /\ pages' = IF over THEN << >> ELSE pages
                        /\ UNCHANGED <<endpoint, fetched, result, stdout>>
                   [] step.status = "continue" ->
                        /\ endpoint' = step.next
                        /\ all_data' = IF over THEN << >> ELSE step.acc
                        /\ pages' = IF over THEN << >>
                                    ELSE Append(pages, resp.body)
                        /\ pc' = "fetching"
                        /\ UNCHANGED <<fetched, result, thrown, raised, logged, stdout>>
                   [] step.status = "return" ->
                        /\ endpoint' = IF Paged(handler) THEN step.next ELSE endpoint
                        /\ all_data' = IF over THEN << >> ELSE step.acc
                        /\ pages' = IF over THEN << >>
                                    ELSE IF Paged(handler)
                                         THEN Append(pages, resp.body) ELSE pages
                        /\ stdout' = IF Paged(handler)
                                     THEN Append(stdout, IntStr(Len(all_data')))
                                     ELSE stdout
                        /\ fetched' = IF Paged(handler) THEN PyList(all_data')
                                      ELSE step.value
                        /\ result' = HandlerReturn(fetched')
                        /\ pc' = "returned"
                        /\ UNCHANGED <<thrown, raised, logged>>
    /\ UNCHANGED <<handler, arguments, params, validateCalls, fetchCalls>>
    /\ UNCHANGED registryVars

\* the handler's result or exception reaches the dispatcher; nothing of the
\* invocation is kept
Complete ==
    /\ pc \in {"returned", "raised"}
    /\ pc' = "idle"
    /\ handler' = "none"
    /\ arguments' = PyNone
    /\ params' = PyNone
    /\ endpoint' = PyNone
    /\ all_data' = << >>
    /\ httpLog' = << >>
    /\ pages' = << >>
    /\ truncated' = FALSE
    /\ fetched' = PyNone
    /\ result' = << >>
    /\ thrown' = NoError
    /\ raised' = NoError
    /\ logged' = << >>
    /\ validateCalls' = 0
    /\ fetchCalls' = 0
    /\ stdout' = << >>
    /\ UNCHANGED registryVars

\* the HTTP call of the running fetch function comes back with one of the
\* outcomes the upstream can produce
HttpReturns == pc = "fetching" /\ \E resp \in ResponsesOf[handler] : HttpCall(resp)

Next ==
    \/ \E m \in Modules, k \in EnvKeys : LoadModule(m, k)
    \/ \E m \in Modules :
           \E name \in DOMAIN TOOLS_HANDLERS[m] :
              \E args \in ArgumentsOf[TOOLS_HANDLERS[m][name]] :
                 CallTool(m, name, args)
    \/ HttpReturns
    \/ Complete

Spec == Init /\ [][Next]_vars

\* the fetch function is ordinary sequential code: once it is inside the
\* HTTP call, the call comes back and the function goes on
FairSpec == Spec /\ WF_vars(HttpReturns)

(***************************************************************************)
(* Properties.                                                             *)
(***************************************************************************)
EmptyArguments == PyDict(EmptyMap)

InvocationOver == pc \in {"returned", "raised"}

\* C1: every handler called with arguments = None behaves as if called with
\* the empty mapping: it validates {} (once), holds the input model built
\* from {}, goes on to the fetch when {} is valid and raises the validation
\* error of {} otherwise.
C1_NoneAsEmptyMapping ==
    (handler # "none" /\ arguments = PyNone) =>
        LET c == ConstructParams(handler, EmptyArguments)
        IN  /\ validateCalls = 1
            /\ params = c.obj
            /\ (c.ok => fetchCalls = 1 /\ thrown.type # "TypeError")
            /\ (~c.ok => pc = "raised" /\ raised = c.err)

\* the argument mappings the claim names as invalid
ClaimedInvalid(h, kw) ==
    \/ /\ h \in {"handle_rail_traffic_info", "handle_railway_lines"}
       /\ \/ /\ "limit" \in DOMAIN kw
             /\ \/ kw["limit"].t = "int" /\ kw["limit"].v \notin 1..100
                \/ kw["limit"].t = "str" /\ kw["limit"].v = <<"abc">>
          \/ /\ "offset" \in DOMAIN kw
             /\ kw["offset"].t = "int"
             /\ kw["offset"].v < 0
    \/ h = "handle_transitdata" /\ "origin" \notin DOMAIN kw

\* C2: an invocation whose argument mapping fails input validation raises a
\* validation error and has issued no HTTP call: the fetch function is not
\* entered and the call log is empty.
C2_InvalidInputIssuesNoHttpCall ==
    (/\ handler # "none"
     /\ arguments.t = "dict"
     /\ \/ ClaimedInvalid(handler, arguments.v)
        \/ ~ConstructParams(handler, arguments).ok) =>
        /\ pc = "raised"
        /\ raised.type = "ValidationError"
        /\ raised.cls = ParamsClass(handler)
        /\ fetchCalls = 0
        /\ httpLog = << >>
        /\ ~truncated

C2_Witness ==
    /\ pc = "raised"
    /\ handler = "handle_rail_traffic_info"
    /\ arguments = PyDict([limit |-> PyInt(101)])
    /\ raised.type = "ValidationError"
    /\ httpLog = << >>

\* C3: an error raised by input validation or by the fetch function is
\* logged exactly once and leaves the handler unchanged; the handler returns
\* nothing after an error, returns only when no error was raised, and
\* attempts validation and fetch at most once per invocation.
C3_ErrorsLoggedOnceAndReraised ==
    /\ (thrown # NoError =>
            /\ pc = "raised"
            /\ logged = << thrown >>
            /\ raised = thrown
            /\ result = << >>)
    /\ (pc = "raised" => thrown # NoError)
    /\ (pc = "returned" => thrown = NoError /\ raised = NoError /\ logged = << >>)
    /\ validateCalls <= 1
    /\ fetchCalls <= 1

C3_Witness ==
    /\ pc = "raised"
    /\ thrown.type = "HTTPStatusError"
    /\ raised = thrown
    /\ Len(logged) = 1
    /\ fetchCalls = 1

\* C4: when validation and fetch both succeed the handler returns exactly
\* one content item, of type text, whose text is str() of the object the
\* fetch function returned.
C4_SingleTextItem ==
    pc = "returned" =>
        /\ Len(result) = 1
        /\ result[1].type = "text"
        /\ result[1].text = Str(fetched)
        /\ fetched # PyNone

C4_Witness ==
    /\ pc = "returned"
    /\ handler = "handle_transitdata"
    /\ fetched.t = "model"
    /\ Attr(fetched, "connections").v # << >>
    /\ Len(result) = 1

\* s starts with pre
HasPrefix(s, pre) == Len(s) >= Len(pre) /\ SubSeq(s, 1, Len(pre)) = pre

\* C5: a finished invocation of a non-paged fetch function has made exactly
\* one call of the HTTP client, whether the call succeeded or failed; the
\* call is a POST for the people search and a GET otherwise, and its URL
\* starts with the module's BASE_URL.  Before the call comes back no call is
\* recorded.
C5_OneHttpCallPerFetch ==
    (handler \notin {"none", "glob_emissions.handle_endpoint"}) =>
        /\ ~truncated
        /\ (pc = "fetching" => httpLog = << >>)
        /\ (InvocationOver /\ fetchCalls = 0 => httpLog = << >>)
        /\ (InvocationOver /\ fetchCalls = 1 =>
               /\ Len(httpLog) = 1
               /\ httpLog[1].request.method =
                     (IF handler = "glob_personal_data.handle_endpoint"
                      THEN "POST" ELSE "GET")
               /\ HasPrefix(httpLog[1].request.url.v,
                     CASE handler = "handle_query_charing_station" ->
                             ch_evcharge_BASE_URL
                       [] handler = "handle_transitdata" ->
                             ch_public_transit_BASE_URL
                       [] handler \in {"handle_rail_traffic_info",
                                       "handle_railway_lines"} ->
                             ch_sbb_BASE_URL
                       [] handler = "glob_personal_data.handle_endpoint" ->
                             glob_personal_data_BASE_URL))

C5_Witness ==
    /\ pc = "raised"
    /\ handler = "glob_personal_data.handle_endpoint"
    /\ Len(httpLog) = 1
    /\ httpLog[1].sent
    /\ httpLog[1].kind = "connect_error"
    /\ httpLog[1].request.method = "POST"

\* C6: a response with a status outside 2xx ends the fetch with an HTTP
\* error carrying that status: its body is not handed to the response model,
\* no further call follows, and no response object and no result exist.
C6_Non2xxIsNotParsed ==
    \A i \in 1..Len(httpLog) :
        (/\ httpLog[i].kind = "response"
         /\ (httpLog[i].status < 200 \/ httpLog[i].status > 299)) =>
            /\ i = Len(httpLog)
            /\ ~httpLog[i].parsed
            /\ pc = "raised"
            /\ thrown.type = "HTTPStatusError"
            /\ thrown.status = httpLog[i].status
            /\ fetched = PyNone
            /\ result = << >>

C6_Witness ==
    /\ pc = "raised"
    /\ handler = "handle_query_charing_station"
    /\ Len(httpLog) = 1
    /\ httpLog[1].status = 302
    /\ ~httpLog[1].parsed
    /\ thrown = HTTPStatusError(302)

\* the result items of the accepted pages from page i on, in page order
RECURSIVE PageItems(_, _)
PageItems(ps, i) ==
    IF i > Len(ps) THEN << >>
    ELSE Attr(ParseModel("EmissionsEndpointResponse", ps[i].v).v, "data").v
         \o PageItems(ps, i + 1)

\* C7: the paged emissions fetch, served n pages of which the last carries
\* no `next`, makes exactly n HTTP calls, the first to the constructed URL
\* and each later one to the previous page's `next`, and returns the
\* concatenation, in page order, of the result items of the n pages.
C7_PagedFetchConcatenatesItems ==
    (handler = "glob_emissions.handle_endpoint" /\ pc = "returned" /\ ~truncated) =>
        /\ Len(httpLog) = Len(pages)
        /\ httpLog[1].request.url = PyStr(glob_emissions_endpoint(params))
        /\ \A k \in 2..Len(httpLog) :
              httpLog[k].request.url = GetNext(pages[k - 1])
        /\ fetched = PyList(PageItems(pages, 1))

\* C8: the paged emissions fetch terminates whatever the upstream does: an
\* invocation inside its fetch function eventually returns or raises.
C8_PagedFetchTerminates == (pc = "fetching") ~> InvocationOver

\* C9: an invocation ends either with a result and no error, every call it
\* made having been accepted, or with an error and no result; in particular
\* a paged fetch that fails after accumulating items returns none of them.
C9_NoPartialSuccess ==
    /\ (pc = "raised" => result = << >> /\ fetched = PyNone)
    /\ (pc = "returned" =>
            /\ Len(result) = 1
            /\ raised = NoError
            /\ (~truncated =>
                   /\ httpLog # << >>
                   /\ \A i \in 1..Len(httpLog) : httpLog[i].accepted))
    /\ (~InvocationOver => result = << >> /\ raised = NoError)

C9_Witness ==
    /\ pc = "raised"
    /\ handler = "glob_emissions.handle_endpoint"
    /\ Len(httpLog) = 3
    /\ ~httpLog[3].accepted
    /\ Len(all_data) = 2
    /\ result = << >>

\* the registered descriptors: module and position in its TOOLS list
Registered == {x \in Modules \X (1..2) : x[2] <= Len(TOOLS[x[1]])}

\* C10: once all five provider modules are loaded no two registered tool
\* descriptors share a name, and a tool name identifies one handler.
C10_ToolNamesUnique ==
    loaded = Modules =>
        /\ \A x \in Registered : \A y \in Registered :
              x # y => TOOLS[x[1]][x[2]].name # TOOLS[y[1]][y[2]].name
        /\ \A m1 \in Modules : \A m2 \in Modules :
              \A n \in DOMAIN TOOLS_HANDLERS[m1] \cap DOMAIN TOOLS_HANDLERS[m2] :
                 TOOLS_HANDLERS[m1][n] = TOOLS_HANDLERS[m2][n]

\* the descriptors module m appends to TOOLS when it is loaded
RegisteredTools(m) == [i \in 1..Len(Registrations(m)) |-> Registrations(m)[i].tool]

\* C11: each module's TOOLS list and TOOLS_HANDLERS mapping are filled once,
\* by the step that loads the module, and no later step changes them: a
\* handler invocation or fetch, whatever its outcome, leaves loaded, TOOLS,
\* TOOLS_HANDLERS and headers as they were; and when no invocation is running
\* nothing of an earlier invocation is left.
C11_RegistryFrame ==
    /\ [](\A m \in Modules :
             TOOLS[m] = (IF m \in loaded THEN RegisteredTools(m) ELSE << >>))
    /\ [](pc = "idle" => NoInvocation)
    /\ [][/\ \A m \in Modules :
              (TOOLS'[m] # TOOLS[m] \/ TOOLS_HANDLERS'[m] # TOOLS_HANDLERS[m]) =>
                  (pc = "idle" /\ m \notin loaded /\ m \in loaded')
          /\ (pc # "idle" \/ pc' # "idle") =>
                  UNCHANGED <<loaded, TOOLS, TOOLS_HANDLERS, headers>>
          /\ loaded \subseteq loaded']_vars

C11_Witness ==
    /\ loaded = Modules
    /\ pc = "raised"
    /\ handler = "handle_railway_lines"
    /\ fetchCalls = 1
    /\ Len(TOOLS["ch_sbb"]) = 2
    /\ DOMAIN TOOLS_HANDLERS["ch_sbb"] = {"rail-traffic-info", "railway-lines"}

\* the first HTTP call of the running invocation is on record
FirstCallRecorded == handler # "none" /\ ~truncated /\ httpLog # << >>

\* the optional fields of handler h's input schema that the mapping kw omits
\* and that therefore keep their None default
AbsentOptional(h, kw) ==
    LET schema == InputSchema(ParamsClass(h))
    IN  { schema[i].name : i \in { j \in 1..Len(schema) :
                                      /\ ~schema[j].required
                                      /\ schema[j].default = PyNone
                                      /\ schema[j].name \notin DOMAIN kw } }

\* name occurs in the request: as a piece of the URL or as a key of params=
NamedInRequest(req, name) ==
    \/ \E i \in 1..Len(req.url.v) : req.url.v[i] = name
    \/ \E i \in 1..Len(req.params) : req.params[i][1] = name

\* C12: in the request a handler issues, an optional input field that the
\* caller omitted and that kept its None default does not occur at all:
\* neither as a key of the query string nor with a placeholder value.
C12_AbsentOptionalOmitted ==
    (FirstCallRecorded /\ arguments.t = "dict") =>
        \A name \in AbsentOptional(handler, arguments.v) :
            ~NamedInRequest(httpLog[1].request, name)

\* the pieces of s between the occurrences of the piece c
RECURSIVE SplitOn(_, _)
SplitOn(s, c) ==
    IF \A i \in 1..Len(s) : s[i] # c THEN << s >>
    ELSE LET i == CHOOSE j \in 1..Len(s) :
                      s[j] = c /\ \A k \in 1..(j - 1) : s[k] # c
         IN  << SubSeq(s, 1, i - 1) >> \o SplitOn(SubSeq(s, i + 1, Len(s)), c)

\* the parameters an upstream reads from a URL: what follows the first "?",
\* cut at every "&"; none when the URL has no "?"
UrlParams(url) ==
    LET parts == SplitOn(url, "?")
    IN  IF Len(parts) = 1 THEN << >>
        ELSE SplitOn(SubSeq(url, Len(parts[1]) + 2, Len(url)), "&")

\* the list-valued fields of the people-search input
PersonalListFields ==
    { PersonalEndpointParams[i].name :
        i \in { j \in 1..Len(PersonalEndpointParams) :
                  PersonalEndpointParams[j].kind = "liststr" } }

\* C13: in the URL of a people-search request every list-valued field with
\* items i1..in contributes exactly the n parameters field[]=i1 .. field[]=in
\* (spaces written %20), in list order; an empty or absent list contributes
\* none; a URL with a "?" carries at least one parameter and no empty one;
\* and when no field produces a parameter the URL is the bare BASE_URL.
C13_ListFieldsRepeatKey ==
    (FirstCallRecorded /\ handler = "glob_personal_data.handle_endpoint") =>
        LET url == httpLog[1].request.url.v
            ps == UrlParams(url)
            dumped == ModelDumpExcludeNone(params)
        IN  /\ \A f \in PersonalListFields :
                  LET v == Attr(params, f)
                      items == IF v.t = "list" THEN v.v ELSE << >>
                  IN  SelectSeq(ps, LAMBDA q : q # << >> /\ q[1] = f)
                        = [k \in 1..Len(items) |->
                              <<f, "[]", "=">> \o Replace(items[k].v, " ", "%20")]
            /\ (\E i \in 1..Len(url) : url[i] = "?") =>
                  (ps # << >> /\ \A k \in 1..Len(ps) : ps[k] # << >>)
            /\ (\A i \in 1..Len(dumped) : dumped[i][2] = PyList(<< >>)) =>
                  url = glob_personal_data_BASE_URL

C13_Witness ==
    /\ FirstCallRecorded
    /\ handler = "glob_personal_data.handle_endpoint"
    /\ Attr(params, "person_titles").t = "list"
    /\ Len(Attr(params, "person_titles").v) = 2
    /\ Len(SelectSeq(UrlParams(httpLog[1].request.url.v),
                     LAMBDA q : q[1] = "person_titles")) = 2

\* C14: a transit request made for an origin and a `to` value is one GET to
\* the transit base URL from which an upstream reads exactly two
\* parameters, `from` carrying the origin and `to` carrying the
\* destination (a space may travel as %20): whatever characters the values
\* contain, they add no parameter and change no key.
C14_TransitQueryEncoded ==
    (/\ FirstCallRecorded
     /\ handler = "handle_transitdata"
     /\ arguments.t = "dict"
     /\ {"origin", "to"} \subseteq DOMAIN arguments.v) =>
        LET req == httpLog[1].request
            ps == UrlParams(req.url.v)
        IN  /\ Len(httpLog) = 1
            /\ req.method = "GET"
            /\ HasPrefix(req.url.v, ch_public_transit_BASE_URL)
            /\ Len(ps) = 2
            /\ HasPrefix(ps[1], <<"from", "=">>)
            /\ Replace(SubSeq(ps[1], 3, Len(ps[1])), "%20", " ")
                  = arguments.v["origin"].v
            /\ HasPrefix(ps[2], <<"to", "=">>)
            /\ Replace(SubSeq(ps[2], 3, Len(ps[2])), "%20", " ")
                  = arguments.v["to"].v

\* the value has the type the field declares (None for an Optional field)
HasDeclaredType(f, v) ==
    \/ v.t = "None" /\ f.nullable
    \/ f.kind = "int" /\ v.t = "int"
    \/ f.kind = "str" /\ v.t = "str"
    \/ f.kind = "bool" /\ v.t = "bool"
    \/ f.kind = "liststr" /\ v.t = "list" /\ \A i \in 1..Len(v.v) : v.v[i].t = "str"

\* the mapping kw has a key the schema does not declare, or a value that is
\* not of the declared type of its field
UnknownShaped(schema, kw) ==
    \/ \E k \in DOMAIN kw : \A i \in 1..Len(schema) : schema[i].name # k
    \/ \E i \in 1..Len(schema) :
          /\ schema[i].name \in DOMAIN kw
          /\ ~HasDeclaredType(schema[i], kw[schema[i].name])

\* C15: an invocation whose argument mapping contains an undeclared key or
\* a value of the wrong type for a declared field is rejected with a
\* validation error, and the fetch function is not entered.
C15_ValidationFailsClosed ==
    (/\ handler # "none"
     /\ arguments.t = "dict"
     /\ UnknownShaped(InputSchema(ParamsClass(handler)), arguments.v)) =>
        /\ pc = "raised"
        /\ raised.type = "ValidationError"
        /\ params = PyNone
        /\ fetchCalls = 0

\* C16: for a mapping that fits the input schema (declared keys only, values
\* of the declared types and within the declared ranges, required fields
\* present) the handler holds a request object that has, field by field in
\* declaration order, the supplied value where one was supplied and the
\* declared default otherwise (limit=10, offset=0, timezone="UTC" for
\* rail-traffic-info); for a mapping that omits a required field the
\* handler raises a validation error naming the field and holds no object.
C16_SuppliedValuesMergedWithDefaults ==
    (handler # "none" /\ arguments.t = "dict") =>
        LET schema == InputSchema(ParamsClass(handler))
            kw == arguments.v
            missing == { schema[i].name :
                           i \in { j \in 1..Len(schema) :
                                     /\ schema[j].required
                                     /\ schema[j].name \notin DOMAIN kw } }
            inRange == \A i \in 1..Len(schema) :
                          (/\ schema[i].name \in DOMAIN kw
                           /\ kw[schema[i].name].t = "int") =>
                              /\ (schema[i].ge # NoBound =>
                                     kw[schema[i].name].v >= schema[i].ge.v)
                              /\ (schema[i].le # NoBound =>
                                     kw[schema[i].name].v <= schema[i].le.v)
        IN  /\ (~UnknownShaped(schema, kw) /\ missing = {} /\ inRange) =>
                  /\ params.t = "model"
                  /\ params.cls = ParamsClass(handler)
                  /\ params.v = [i \in 1..Len(schema) |->
                                   << schema[i].name,
                                      IF schema[i].name \in DOMAIN kw
                                      THEN kw[schema[i].name]
                                      ELSE schema[i].default >>]
            /\ (handler = "handle_rail_traffic_info" /\ params.t = "model") =>
                  /\ ("limit" \notin DOMAIN kw => Attr(params, "limit") = PyInt(10))
                  /\ ("offset" \notin DOMAIN kw => Attr(params, "offset") = PyInt(0))
                  /\ ("timezone" \notin DOMAIN kw =>
                         Attr(params, "timezone") = PyStr(<<"UTC">>))
            /\ (missing # {}) =>
                  /\ pc = "raised"
                  /\ raised.type = "ValidationError"
                  /\ missing \subseteq raised.fields
                  /\ params = PyNone
                  /\ fetchCalls = 0

C16_Witness ==
    /\ handler = "handle_rail_traffic_info"
    /\ arguments = PyDict([limit |-> PyInt(50), offset |-> PyInt(20)])
    /\ pc = "fetching"
    /\ Attr(params, "limit") = PyInt(50)
    /\ Attr(params, "offset") = PyInt(20)
    /\ Attr(params, "timezone") = PyStr(<<"UTC">>)
    /\ Attr(params, "lang") = PyNone

\* a JSON value has the type a response schema declares: every required key
\* present and every declared key that is present of its declared type, at
\* every depth; keys the schema does not declare are of no account
RECURSIVE MatchesType(_, _)
RECURSIVE MatchesSchema(_, _)
MatchesType(ty, v) ==
    CASE ty.k = "str" -> v.t = "str"
      [] ty.k = "int" -> v.t = "int"
      [] ty.k = "float" -> v.t \in {"float", "int"}
      [] ty.k = "bool" -> v.t = "bool"
      [] ty.k = "datetime" ->
            v.t = "str" /\ Len(v.v) = 1 /\ v.v[1] \in DateTimeStrs
      [] ty.k = "dict" -> v.t = "dict"
      [] ty.k = "list" ->
            v.t = "list" /\ \A i \in 1..Len(v.v) : MatchesType(ty.of, v.v[i])
      [] ty.k = "model" -> v.t = "dict" /\ MatchesSchema(ty.cls, v.v)

MatchesSchema(cls, kw) ==
    \A i \in 1..Len(ResponseSchema(cls)) :
        LET f == ResponseSchema(cls)[i]
        IN  IF f.key \in DOMAIN kw
            THEN IF kw[f.key].t = "None" THEN f.nullable
                 ELSE MatchesType(f.ty, kw[f.key])
            ELSE ~f.required

\* C17: a 2xx response whose body matches the response schema of the fetch
\* function, additional unknown fields or not, is accepted and parsed; one
\* whose body lacks a required field or has a value of another type than
\* declared, at any depth, ends the fetch with a parse error: no object is
\* returned, no result produced and no further call made.
C17_ResponseParsedAgainstSchema ==
    \A i \in 1..Len(httpLog) :
        (httpLog[i].kind = "response" /\ httpLog[i].status \div 100 = 2) =>
            IF /\ httpLog[i].body.t = "dict"
               /\ MatchesSchema(ResponseClass(handler), httpLog[i].body.v)
            THEN httpLog[i].accepted
            ELSE /\ ~httpLog[i].accepted
                 /\ i = Len(httpLog)
                 /\ pc = "raised"
                 /\ thrown.type \in {"ValidationError", "TypeError", "JSONDecodeError"}
                 /\ fetched = PyNone
                 /\ result = << >>

\* the value a request's headers give for `name` (None when they have no
\* such header)
HeaderValue(hdrs, name) ==
    IF \E i \in 1..Len(hdrs) : hdrs[i][1] = name
    THEN hdrs[CHOOSE i \in 1..Len(hdrs) : hdrs[i][1] = name][2]
    ELSE PyNone

\* C18: the people-search module loads whatever the environment holds for
\* the API key; when the key is not in the environment the first
\* people-search request raises before anything is sent; and no
\* people-search call is ever sent without an x-api-key header that is a
\* non-empty string.
C18_NoCallWithoutCredential ==
    /\ ("glob_personal_data" \in loaded) =>
          /\ Len(headers) = 4
          /\ DOMAIN TOOLS_HANDLERS["glob_personal_data"] = {"endpoint-name"}
    /\ (handler = "glob_personal_data.handle_endpoint") =>
          /\ \A i \in 1..Len(httpLog) :
                httpLog[i].sent =>
                   /\ HeaderValue(httpLog[i].request.headers, "x-api-key").t = "str"
                   /\ HeaderValue(httpLog[i].request.headers, "x-api-key").v # << >>
          /\ (FirstCallRecorded /\ HeaderValue(headers, "x-api-key").t = "None") =>
                /\ Len(httpLog) = 1
                /\ ~httpLog[1].sent
                /\ pc = "raised"
                /\ raised # NoError
                /\ result = << >>

\* the dispatcher starts a handler invocation.  The handlers are `async def`
\* functions without an `await`: they call the synchronous fetch function,
\* which calls the blocking httpx.get / httpx.post, so a started invocation
\* keeps the event loop until it returns or raises (CallTool's pc = "idle").
Dispatch ==
    \E m \in Modules :
       \E name \in DOMAIN TOOLS_HANDLERS[m] :
          \E args \in ArgumentsOf[TOOLS_HANDLERS[m][name]] :
             CallTool(m, name, args)

\* C19: the outbound HTTP call is the one suspension point of a handler
\* invocation: while an invocation is inside its HTTP call the dispatcher
\* can start another invocation, and at no other point of an unfinished
\* invocation can it do so.
C19_HttpCallIsSoleSuspensionPoint ==
    (handler # "none" /\ pc # "idle") =>
        ((ENABLED Dispatch) <=> (pc = "fetching"))

\* the `test` text a charging-stations invocation runs with: the one the
\* caller supplied, or the declared default
TestOf(args) ==
    IF args.t = "dict" /\ "test" \in DOMAIN args.v THEN args.v["test"]
    ELSE PyStr(<<"&", "cql_filter", "=", "RenewableEnergy", "=", "true">>)

\* C20: the URL a charging-stations invocation requests is the base URL,
\* the fixed text %3Aevse&maxFeatures=10&outputFormat=application%2Fjson and
\* then the `test` input as it was given: it is determined by `test` alone,
\* so two valid mappings that differ only in `limit` give the same URL, and
\* maxFeatures is 10 whatever `limit` is.
C20_LimitHasNoEffect ==
    (handler = "handle_query_charing_station" /\ fetchCalls = 1) =>
        LET url == ch_evcharge_BASE_URL
                   \o << "%3A", "evse", "&", "maxFeatures", "=", "10", "&",
                         "outputFormat", "=", "application%2Fjson" >>
                   \o TestOf(arguments).v
        IN  /\ endpoint = PyStr(url)
            /\ \A i \in 1..Len(httpLog) :
                  /\ httpLog[i].request.url = PyStr(url)
                  /\ httpLog[i].request.params = << >>
            /\ SelectSeq(UrlParams(url), LAMBDA q : HasPrefix(q, <<"maxFeatures">>))
                  = << <<"maxFeatures", "=", "10">> >>

C20_Witness ==
    /\ handler = "handle_query_charing_station"
    /\ pc = "returned"
    /\ Attr(params, "limit") = PyInt(5)
    /\ Len(httpLog) = 1
    /\ HasPrefix(httpLog[1].request.url.v, ch_evcharge_BASE_URL)
    /\ SubSeq(httpLog[1].request.url.v,
              Len(httpLog[1].request.url.v) - 5, Len(httpLog[1].request.url.v))
          = <<"&", "cql_filter", "=", "IsOpen24Hours", "=", "true">>

====
